---- MODULE Spec2Model ----
(***************************************************************************)
(* Model of the dmidecode output parser and query functions of package     *)
(* dmidecode (src/dmidecode.go): DMI.ParseDmidecode, DMI.GenericSearchBy,  *)
(* DMI.SearchByName and DMI.SearchByType.                                  *)
(*                                                                         *)
(* A Go string is a finite sequence of symbols.  A symbol is one character *)
(* ("\t", "\n", " ", ",", ":", a digit, a letter) or one of the words      *)
(* "Handle", "DMI", "type", "bytes", "DMIType", "DMISize", "DMIName",      *)
(* which stand for their characters and never occur split.  The empty Go   *)
(* string is the empty sequence.  A Go slice is a sequence; Go index k is  *)
(* index k+1 here.  A Go map is a function; its key set is its DOMAIN.     *)
(***************************************************************************)
EXTENDS Integers, Sequences, FiniteSets

\* ------------------------------------------------------------------------
\* Bounds of the exploration
\* ------------------------------------------------------------------------

\* Lines of dmidecode output fed to one DMI over a whole run, all calls of
\* ParseDmidecode taken together.
MaxLines == 6

\* Blocks (pieces between blank lines) in the output given to one call.
MaxBlocks == 2

\* Largest integer passed to SearchByType.
MaxType == 2

\* ------------------------------------------------------------------------
\* Strings
\* ------------------------------------------------------------------------

NL == "\n"
TAB == "\t"

Digits == <<"0", "1", "2", "3", "4", "5", "6", "7", "8", "9">>

IsDigit(c) == \E k \in 1..10 : Digits[k] = c

\* \s of Go's regexp (RE2): [\t\n\f\r ].
IsSpace(c) == c \in {TAB, NL, " ", "\f", "\r"}

\* s[from..] (Go slice expression s[from-1:]).
Drop(s, from) == SubSeq(s, from, Len(s))

\* Whether sep occurs in s at index k.
OccursAt(s, sep, k) ==
    /\ k + Len(sep) - 1 <= Len(s)
    /\ SubSeq(s, k, k + Len(sep) - 1) = sep

\* strings.Index(s, sep) + 1, or 0 when sep does not occur in s.
Index(s, sep) ==
    LET hits == {k \in 1..Len(s) : OccursAt(s, sep, k)}
    IN  IF hits = {} THEN 0 ELSE CHOOSE k \in hits : \A j \in hits : k <= j

\* strings.Split(s, sep) for a non-empty sep: the pieces of s between the
\* non-overlapping occurrences of sep, found left to right; always at least
\* one piece.
RECURSIVE Split(_, _)
Split(s, sep) ==
    LET k == Index(s, sep)
    IN  IF k = 0
        THEN <<s>>
        ELSE <<SubSeq(s, 1, k - 1)>> \o Split(Drop(s, k + Len(sep)), sep)

\* The decimal digits of a natural number.
RECURSIVE Uitoa(_)
Uitoa(n) ==
    IF n < 10 THEN <<Digits[n + 1]>>
    ELSE Uitoa(n \div 10) \o <<Digits[(n % 10) + 1]>>

\* Itoa padded to two digits, as a "%02d" format would print.
Itoa_padded(n) ==
    IF n < 0 THEN <<"-">> \o Uitoa(0 - n)
    ELSE IF n < 10 THEN <<"0">> \o Uitoa(n) ELSE Uitoa(n)

\* strconv.Itoa
Itoa(n) == IF n < 0 THEN <<"-">> \o Uitoa(0 - n) ELSE Uitoa(n)

\* ------------------------------------------------------------------------
\* Regular expressions
\*
\* The four patterns of ParseDmidecode are concatenations of items, each a
\* literal symbol or a class (".", \s, \d), taken once or one-or-more times
\* (greedy "+"), some of them capture groups; all end in "$".  An item is
\* [cls, plus, grp]: grp is TRUE for an item in parentheses.
\* ------------------------------------------------------------------------

Lit(c) == [cls |-> c, plus |-> FALSE, grp |-> FALSE]
Ws == [cls |-> "\\s", plus |-> TRUE, grp |-> FALSE]
AnyGrp == [cls |-> ".", plus |-> TRUE, grp |-> TRUE]
DigitsGrp == [cls |-> "\\d", plus |-> TRUE, grp |-> TRUE]

\* Whether symbol c belongs to the class or equals the literal.
InClass(cls, c) ==
    CASE cls = "." -> c # NL
      [] cls = "\\s" -> IsSpace(c)
      [] cls = "\\d" -> IsDigit(c)
      [] OTHER -> c = cls

NoMatch == [ok |-> FALSE, caps |-> <<>>]

\* Length of the longest run of symbols of class cls in s starting at pos.
RECURSIVE Run(_, _, _)
Run(cls, s, pos) ==
    IF pos <= Len(s) /\ InClass(cls, s[pos]) THEN 1 + Run(cls, s, pos + 1) ELSE 0

\* Match items k.. of re against s from pos to the end of s ("$"), with the
\* priorities of a backtracking matcher: item k takes j symbols if the rest
\* then matches, else it is tried with j - 1, down to lo.  caps are the
\* submatches in group order.
RECURSIVE MatchFrom(_, _, _, _), TryLen(_, _, _, _, _, _)
TryLen(re, k, s, pos, j, lo) ==
    IF j < lo \/ j < 1 THEN NoMatch
    ELSE LET rest == MatchFrom(re, k + 1, s, pos + j)
         IN  IF rest.ok
             THEN [ok |-> TRUE,
                   caps |-> IF re[k].grp
                            THEN <<SubSeq(s, pos, pos + j - 1)>> \o rest.caps
                            ELSE rest.caps]
             ELSE TryLen(re, k, s, pos, j - 1, lo)

MatchFrom(re, k, s, pos) ==
    IF k > Len(re)
    THEN IF pos = Len(s) + 1 THEN [ok |-> TRUE, caps |-> <<>>] ELSE NoMatch
    ELSE IF re[k].plus
         THEN TryLen(re, k, s, pos, Run(re[k].cls, s, pos), 1)
         ELSE IF pos <= Len(s) /\ InClass(re[k].cls, s[pos])
              THEN TryLen(re, k, s, pos, 1, 1)
              ELSE NoMatch

\* The first start position at or after p where re matches, as
\* [ok, caps, at]; a leftmost match.
RECURSIVE Leftmost(_, _, _, _)
Leftmost(re, s, p, last) ==
    IF p > last THEN [ok |-> FALSE, caps |-> <<>>, at |-> 0]
    ELSE LET m == MatchFrom(re, 1, s, p)
         IN  IF m.ok THEN [ok |-> TRUE, caps |-> m.caps, at |-> p]
             ELSE Leftmost(re, s, p + 1, last)

\* Regexp.FindStringSubmatch: <<>> (nil) when s has no match; otherwise the
\* whole match followed by the submatches, for the leftmost match.  A
\* pattern starting with "^" (anchored) matches at the start of s only.
FindStringSubmatch(re, anchored, s) ==
    LET m == Leftmost(re, s, 1, IF anchored THEN 1 ELSE Len(s))
    IN  IF m.ok THEN <<Drop(s, m.at)>> \o m.caps ELSE <<>>

\* "^Handle\\s+(.+),\\s+DMI\\s+type\\s+(\\d+),\\s+(\\d+)\\s+bytes$"
handleRegex ==
    <<Lit("Handle"), Ws, AnyGrp, Lit(","), Ws, Lit("DMI"), Ws, Lit("type"), Ws,
      DigitsGrp, Lit(","), Ws, DigitsGrp, Ws, Lit("bytes")>>

\* "^\\t\\t(.+)$"
inBlockRegex == <<Lit(TAB), Lit(TAB), AnyGrp>>

\* "\\t(.+):\\s+(.+)$"
recordRegex == <<Lit(TAB), AnyGrp, Lit(":"), Ws, AnyGrp>>

\* "\\t(.+):$"
recordRegex2 == <<Lit(TAB), AnyGrp, Lit(":")>>

\* ------------------------------------------------------------------------
\* The lines and the outputs the exploration feeds to ParseDmidecode
\* ------------------------------------------------------------------------

\* "Handle A, DMI type 1, 2 bytes"
HeaderA == <<"Handle", " ", "A", ",", " ", "DMI", " ", "type", " ", "1", ",",
             " ", "2", " ", "bytes">>

\* "Handle B, DMI type 01, 2 bytes"
HeaderB == <<"Handle", " ", "B", ",", " ", "DMI", " ", "type", " ", "0", "1",
             ",", " ", "2", " ", "bytes">>

\* "Handle A": not a header
BadHeader == <<"Handle", " ", "A">>

\* "N": a name line
NameN == <<"N">>

\* "\tK: v": a scalar attribute
KeyValue == <<TAB, "K", ":", " ", "v">>

\* "\tL:": the opening of an array attribute
ArrayOpen == <<TAB, "L", ":">>

\* "\t\tx": a doubly-indented line
ContX == <<TAB, TAB, "x">>

\* "\t\tK: w": a doubly-indented line that also has the "key: value" shape
ContKV == <<TAB, TAB, "K", ":", " ", "w">>

\* "\tDMIName: v": a scalar attribute with a reserved name
NameAttr == <<TAB, "DMIName", ":", " ", "v">>

\* "": what a trailing line break leaves as last line
EmptyLine == <<>>

FirstLines == {HeaderA, HeaderB, BadHeader}
SecondLines == {NameN, HeaderA}
ThirdLines == {KeyValue, ArrayOpen, ContX, ContKV, NameAttr, EmptyLine}
BodyLines == {KeyValue, ArrayOpen, ContX, ContKV}

\* The blocks of exactly n lines: the empty line; a first line and name N;
\* any first, second and third line; under header A and name N, any body
\* lines.
BlocksOf(n) ==
    CASE n = 1 -> {<<EmptyLine>>}
      [] n = 2 -> {<<h, NameN>> : h \in FirstLines}
      [] n = 3 -> {<<h, m, b>> : h \in FirstLines, m \in SecondLines,
                                 b \in ThirdLines}
      [] OTHER -> {<<HeaderA, NameN>> \o b : b \in [1..(n - 2) -> BodyLines]}

\* The pieces of ss joined by sep (strings.Join).
RECURSIVE Join(_, _)
Join(ss, sep) ==
    IF Len(ss) = 0 THEN <<>>
    ELSE IF Len(ss) = 1 THEN ss[1]
    ELSE ss[1] \o sep \o Join(Tail(ss), sep)

\* The texts of exactly n lines made of k blocks, the lines of a block
\* separated by a line break and the blocks by a blank line.
RECURSIVE TextsOf(_, _)
TextsOf(k, n) ==
    IF k = 1
    THEN {Join(b, <<NL>>) : b \in BlocksOf(n)}
    ELSE UNION {{Join(b, <<NL>>) \o <<NL, NL>> \o t : b \in BlocksOf(m),
                                                    t \in TextsOf(k - 1, n - m)}
                : m \in 1..(n - k + 1)}

\* The outputs of n lines.
Outputs(n) == UNION {TextsOf(k, n) : k \in 1..MaxBlocks}

OutputsByLines == [n \in 1..MaxLines |-> Outputs(n)]

\* Arguments of the searches.
Params == {<<"DMIName">>, <<"DMIType">>, <<"K">>, <<"L">>}
Values == {<<>>, NameN, <<"v">>, <<"x">>}
SearchNames == {<<>>, NameN, HeaderA}
SearchTypes == 0..MaxType

\* ------------------------------------------------------------------------
\* State
\* ------------------------------------------------------------------------

VARIABLES
    Data,            \* d.Data: handle -> (attribute name -> value)
    pc,              \* "idle": no call in progress; "record": at the head of
                     \* the loop over splitOutput; "line": at the head of the
                     \* loop over recordElements[2:]
    output,          \* the argument of the ParseDmidecode call in progress
    splitOutput,     \* its blocks
    r,               \* index of the current block in splitOutput
    i,               \* index of the current line in the current block
    dmiHandle,       \* handle of the current block
    inBlockElement,  \* key of the open array attribute, "" when none
    inBlockList,     \* fragments gathered for an array attribute
    err,             \* what the last ParseDmidecode call returned
    ret,             \* the last search call: arguments and results
    succeeded,       \* history: some ParseDmidecode call has returned nil
    fed              \* history: lines given to ParseDmidecode so far

vars == <<Data, pc, output, splitOutput, r, i, dmiHandle, inBlockElement,
          inBlockList, err, ret, succeeded, fed>>

locals == <<dmiHandle, inBlockElement, inBlockList, i>>

\* A map with no entry (make(map[string]string), and make of d.Data).
EmptyMap == <<>>

\* m[k] of a Go map: the zero value "" when k is not a key.
Lookup(m, k) == IF k \in DOMAIN m THEN m[k] ELSE <<>>

\* An assignment that leaves k as the only key of the map.
Store_dropsOthers(m, k, v) == [x \in {k} |-> v]

\* m[k] = v of a Go map.
Store(m, k, v) == [x \in (DOMAIN m) \cup {k} |-> IF x = k THEN v ELSE m[x]]

\* ret when no search has returned since the last ParseDmidecode call.
NoSearch == [op |-> "none", param |-> <<>>, value |-> <<>>, arg |-> <<>>,
             rec |-> EmptyMap, err |-> "nil"]

\* New()
Init ==
    /\ Data = EmptyMap
    /\ pc = "idle"
    /\ output = <<>>
    /\ splitOutput = <<>>
    /\ r = 0
    /\ i = 0
    /\ dmiHandle = <<>>
    /\ inBlockElement = <<>>
    /\ inBlockList = <<>>
    /\ err = "none"
    /\ ret = NoSearch
    /\ succeeded = FALSE
    /\ fed = 0

\* ------------------------------------------------------------------------
\* ParseDmidecode
\* ------------------------------------------------------------------------

\* Entry of a ParseDmidecode that starts from an empty table.
ParseDmidecode_clears(out, n) ==
    /\ pc = "idle"
    /\ fed + n <= MaxLines
    /\ output' = out
    /\ splitOutput' = Split(out, <<NL, NL>>)
    /\ r' = 1
    /\ pc' = "record"
    /\ err' = "none"
    /\ ret' = NoSearch
    /\ fed' = fed + n
    /\ Data' = EmptyMap
    /\ UNCHANGED <<locals, succeeded>>

\* Entry of ParseDmidecode(out): splitOutput := strings.Split(output, "\n\n")
ParseDmidecode(out, n) ==
    /\ pc = "idle"
    /\ fed + n <= MaxLines
    /\ output' = out
    /\ splitOutput' = Split(out, <<NL, NL>>)
    /\ r' = 1
    /\ pc' = "record"
    /\ err' = "none"
    /\ ret' = NoSearch
    /\ fed' = fed + n
    /\ UNCHANGED <<Data, locals, succeeded>>

\* recordElements := strings.Split(record, "\n") of the current block
recordElements == Split(splitOutput[r], <<NL>>)

\* The header pattern tried on the second line of the block.
handleData_nameLine == FindStringSubmatch(handleRegex, TRUE, recordElements[2])

\* handleData := handleRegex.FindStringSubmatch(recordElements[0])
handleData == FindStringSubmatch(handleRegex, TRUE, recordElements[1])

\* A block of two lines taken as long enough.
TooShort_two(lines) == Len(lines) < 2

\* len(recordElements) < 3
TooShort(lines) == Len(lines) < 3

\* A record seeded without its name.
SeedRecord_noName(type, size, name) ==
    Store(Store(EmptyMap, <<"DMIType">>, type), <<"DMISize">>, size)

\* The type stored as the size and the size as the type.
SeedRecord_swapped(type, size, name) ==
    Store(Store(Store(EmptyMap, <<"DMIType">>, size), <<"DMISize">>, type),
          <<"DMIName">>, name)

\* The three attributes a header and a name line seed a record with.
SeedRecord(type, size, name) ==
    Store(Store(Store(EmptyMap, <<"DMIType">>, type), <<"DMISize">>, size),
          <<"DMIName">>, name)

\* len(recordElements) < 3: continue
SkipShort ==
    /\ pc = "record"
    /\ r <= Len(splitOutput)
    /\ TooShort(recordElements)
    /\ r' = r + 1
    /\ UNCHANGED <<Data, pc, output, splitOutput, locals, err, ret, succeeded, fed>>

\* len(handleData) == 0: continue
SkipNoHeader ==
    /\ pc = "record"
    /\ r <= Len(splitOutput)
    /\ ~TooShort(recordElements)
    /\ Len(handleData) = 0
    /\ r' = r + 1
    /\ UNCHANGED <<Data, pc, output, splitOutput, locals, err, ret, succeeded, fed>>

\* The header matched, and the record the table has for the handle is kept:
\* the three seeded attributes are written into it.
BeginRecord_keepsOld ==
    /\ pc = "record"
    /\ r <= Len(splitOutput)
    /\ ~TooShort(recordElements)
    /\ Len(handleData) # 0
    /\ dmiHandle' = handleData[2]
    /\ Data' = Store(Data, handleData[2],
                     Store(Store(Store(Lookup(Data, handleData[2]),
                                       <<"DMIType">>, handleData[3]),
                                 <<"DMISize">>, handleData[4]),
                           <<"DMIName">>, recordElements[2]))
    /\ inBlockElement' = <<>>
    /\ inBlockList' = <<>>
    /\ i' = 3
    /\ pc' = "line"
    /\ UNCHANGED <<output, splitOutput, r, err, ret, succeeded, fed>>

\* The header matched, and the scan of the lines starts with the open key and
\* the fragments the scan of the previous block ended with.
BeginRecord_keepsScan ==
    /\ pc = "record"
    /\ r <= Len(splitOutput)
    /\ ~TooShort(recordElements)
    /\ Len(handleData) # 0
    /\ dmiHandle' = handleData[2]
    /\ Data' = Store(Data, handleData[2],
                     SeedRecord(handleData[3], handleData[4], recordElements[2]))
    /\ i' = 3
    /\ pc' = "line"
    /\ UNCHANGED <<output, splitOutput, r, inBlockElement, inBlockList, err, ret,
                   succeeded, fed>>

\* The header matched: create the record of the handle and start the scan of
\* the lines after the name line.
BeginRecord ==
    /\ pc = "record"
    /\ r <= Len(splitOutput)
    /\ ~TooShort(recordElements)
    /\ Len(handleData) # 0
    /\ dmiHandle' = handleData[2]
    /\ Data' = Store(Data, handleData[2],
                     SeedRecord(handleData[3], handleData[4], recordElements[2]))
    /\ inBlockElement' = <<>>
    /\ inBlockList' = <<>>
    /\ i' = 3
    /\ pc' = "line"
    /\ UNCHANGED <<output, splitOutput, r, err, ret, succeeded, fed>>

\* The fragments after one more fragment.
Accumulate(list, fragment) ==
    IF Len(list) = 0 THEN fragment ELSE list \o <<TAB, TAB>> \o fragment

\* One iteration of the loop over the lines of the record.
ScanLine ==
    /\ pc = "line"
    /\ i <= Len(recordElements)
    /\ LET line == recordElements[i]
           inBlockData == FindStringSubmatch(inBlockRegex, TRUE, line)
           recordData == FindStringSubmatch(recordRegex, FALSE, line)
           recordData2 == FindStringSubmatch(recordRegex2, FALSE, line)
           setAttr(k, v) == Store(Data, dmiHandle, Store(Data[dmiHandle], k, v))
       IN  IF inBlockElement # <<>> /\ Len(inBlockData) > 0
           THEN /\ inBlockList' = Accumulate(inBlockList, inBlockData[2])
                /\ Data' = setAttr(inBlockElement,
                                   Accumulate(inBlockList, inBlockData[2]))
                /\ UNCHANGED inBlockElement
           ELSE IF Len(recordData) > 0
           THEN /\ Data' = setAttr(recordData[2], recordData[3])
                /\ inBlockElement' = <<>>
                /\ UNCHANGED inBlockList
           ELSE IF Len(recordData2) > 0
           THEN /\ inBlockElement' = recordData2[2]
                /\ UNCHANGED <<Data, inBlockList>>
           ELSE /\ inBlockElement' = <<>>
                /\ UNCHANGED <<Data, inBlockList>>
    /\ i' = i + 1
    /\ UNCHANGED <<pc, output, splitOutput, r, dmiHandle, err, ret, succeeded, fed>>

\* The loop over the lines ends: next block.
EndRecord ==
    /\ pc = "line"
    /\ i > Len(recordElements)
    /\ r' = r + 1
    /\ pc' = "record"
    /\ UNCHANGED <<Data, output, splitOutput, locals, err, ret, succeeded, fed>>

\* The error returned for a table of fewer than two records.
ParseResult_twoRecords(data) ==
    IF Cardinality(DOMAIN data) < 2 THEN "EmptyResult" ELSE "nil"

\* What ParseDmidecode returns for the table it leaves.
ParseResult(data) ==
    IF Cardinality(DOMAIN data) = 0 THEN "EmptyResult" ELSE "nil"

\* After the last block: the error when d.Data is empty, nil otherwise.
Return ==
    /\ pc = "record"
    /\ r > Len(splitOutput)
    /\ err' = ParseResult(Data)
    /\ succeeded' = (succeeded \/ ParseResult(Data) = "nil")
    /\ pc' = "idle"
    /\ output' = <<>>
    /\ splitOutput' = <<>>
    /\ r' = 0
    /\ i' = 0
    /\ dmiHandle' = <<>>
    /\ inBlockElement' = <<>>
    /\ inBlockList' = <<>>
    /\ UNCHANGED <<Data, ret, fed>>

\* ------------------------------------------------------------------------
\* Searches
\* ------------------------------------------------------------------------

\* The handles whose record the loop of GenericSearchBy returns on.
Matching(data, param, value) ==
    {h \in DOMAIN data : Lookup(data[h], param) = value}

\* The "DMI data is empty" error returned also when no record matches.
GenericSearchBy_missIsError(data, param, value) ==
    IF Matching(data, param, value) = {}
    THEN {[rec |-> EmptyMap, err |-> "NotInitialized"]}
    ELSE {[rec |-> data[h], err |-> "nil"] : h \in Matching(data, param, value)}

\* The results GenericSearchBy(param, value) can return on table data, each
\* [rec, err].  The range over d.Data visits the records in an order Go
\* leaves unspecified: any matching record can be the first one met.
GenericSearchBy(data, param, value) ==
    IF Cardinality(DOMAIN data) = 0
    THEN {[rec |-> EmptyMap, err |-> "NotInitialized"]}
    ELSE IF Matching(data, param, value) = {}
    THEN {[rec |-> EmptyMap, err |-> "nil"]}
    ELSE {[rec |-> data[h], err |-> "nil"] : h \in Matching(data, param, value)}

SearchByName(data, name) == GenericSearchBy(data, <<"DMIName">>, name)

SearchByType(data, id) == GenericSearchBy(data, <<"DMIType">>, Itoa(id))

\* A search returns res to its caller.
Returned(op, param, value, arg, res) ==
    /\ ret' = [op |-> op, param |-> param, value |-> value, arg |-> arg,
               rec |-> res.rec, err |-> res.err]
    /\ UNCHANGED <<Data, pc, output, splitOutput, r, locals, err, succeeded, fed>>

CallGenericSearchBy ==
    /\ pc = "idle"
    /\ \E param \in Params, value \in Values :
         \E res \in GenericSearchBy(Data, param, value) :
            Returned("GenericSearchBy", param, value, value, res)

CallSearchByName ==
    /\ pc = "idle"
    /\ \E name \in SearchNames :
         \E res \in SearchByName(Data, name) :
            Returned("SearchByName", <<"DMIName">>, name, name, res)

CallSearchByType ==
    /\ pc = "idle"
    /\ \E id \in SearchTypes :
         \E res \in SearchByType(Data, id) :
            Returned("SearchByType", <<"DMIType">>, Itoa(id), id, res)

\* ------------------------------------------------------------------------
\* Specification
\* ------------------------------------------------------------------------

CallParseDmidecode ==
    /\ pc = "idle"
    /\ \E n \in 1..(MaxLines - fed) :
         \E out \in OutputsByLines[n] : ParseDmidecode(out, n)

Next ==
    \/ CallParseDmidecode
    \/ SkipShort
    \/ SkipNoHeader
    \/ BeginRecord
    \/ ScanLine
    \/ EndRecord
    \/ Return
    \/ CallGenericSearchBy
    \/ CallSearchByName
    \/ CallSearchByType

Spec == Init /\ [][Next]_vars

\* ------------------------------------------------------------------------
\* Properties
\* ------------------------------------------------------------------------

\* All blocks of the call in progress are processed: the call is at the test
\* of len(d.Data) that decides its return value.
Done == pc = "record" /\ r > Len(splitOutput)

\* The lines of block b of the call in progress.
LinesOf(b) == Split(splitOutput[b], <<NL>>)

\* The submatches of the header pattern on a line, <<>> when it is no header.
HeaderOf(line) == FindStringSubmatch(handleRegex, TRUE, line)

IsHeader(line) == Len(HeaderOf(line)) # 0

\* The handle, type digits and size digits of a header line.
HandleOf(line) == HeaderOf(line)[2]
TypeOf(line) == HeaderOf(line)[3]
SizeOf(line) == HeaderOf(line)[4]

\* The blocks of at least 3 lines whose first line is a header.
MatchingBlocks ==
    {b \in 1..Len(splitOutput) : Len(LinesOf(b)) >= 3 /\ IsHeader(LinesOf(b)[1])}

ReservedKeys == {<<"DMIType">>, <<"DMISize">>, <<"DMIName">>}

\* The record of handle h has the given type, size and name.
HasSeed(h, type, size, name) ==
    /\ h \in DOMAIN Data
    /\ Lookup(Data[h], <<"DMIType">>) = type
    /\ Lookup(Data[h], <<"DMISize">>) = size
    /\ Lookup(Data[h], <<"DMIName">>) = name

\* C1 (as claimed): a ParseDmidecode call whose input is empty or has no block
\* of at least 3 lines with a header as first line returns the "unable to
\* parse" error, whatever calls were made on the DMI before.
C1_NoMatchingBlockReturnsError ==
    [][(Done /\ MatchingBlocks = {}) => err' = "EmptyResult"]_vars

\* C2 (as claimed): after a call, every header line of the input that is
\* followed by a line has an entry under its handle, with the header's type
\* and size digits and the following line as name.
C2_HeaderLineYieldsEntry ==
    Done =>
        \A b \in 1..Len(splitOutput) : \A k \in 1..(Len(LinesOf(b)) - 1) :
            IsHeader(LinesOf(b)[k]) =>
                HasSeed(HandleOf(LinesOf(b)[k]), TypeOf(LinesOf(b)[k]),
                        SizeOf(LinesOf(b)[k]), LinesOf(b)[k + 1])

\* A line after the name line matches the "key: value" or the "key:" pattern
\* with a reserved attribute name as key.
NamesReserved(lines) ==
    \E k \in 3..Len(lines) :
        LET recordData == FindStringSubmatch(recordRegex, FALSE, lines[k])
            recordData2 == FindStringSubmatch(recordRegex2, FALSE, lines[k])
        IN  \/ Len(recordData) > 0 /\ recordData[2] \in ReservedKeys
            \/ Len(recordData2) > 0 /\ recordData2[2] \in ReservedKeys

\* No matching block after b has the handle of b.
LastOfHandle(b) ==
    \A c \in MatchingBlocks :
        c > b => HandleOf(LinesOf(c)[1]) # HandleOf(LinesOf(b)[1])

\* C2 (amended): after a call, every block of at least 3 lines whose first
\* line is a header has an entry under its handle; the entry has the
\* header's type and size digits and the block's second line as name when
\* the block is the last one of its handle and none of its later lines
\* names a reserved attribute as key.
C2_MatchingBlockYieldsEntry ==
    Done =>
        \A b \in MatchingBlocks :
            LET lines == LinesOf(b)
            IN  /\ HandleOf(lines[1]) \in DOMAIN Data
                /\ (LastOfHandle(b) /\ ~NamesReserved(lines)) =>
                       HasSeed(HandleOf(lines[1]), TypeOf(lines[1]),
                               SizeOf(lines[1]), lines[2])

\* A call has processed two matching blocks of one handle with different
\* name lines.
C2_Witness ==
    /\ Done
    /\ \E b \in MatchingBlocks, c \in MatchingBlocks :
           /\ b < c
           /\ HandleOf(LinesOf(b)[1]) = HandleOf(LinesOf(c)[1])
           /\ LinesOf(b)[2] # LinesOf(c)[2]
           /\ ~NamesReserved(LinesOf(c))

\* A doubly-indented line, and its content.
IsContinuation(line) == Len(FindStringSubmatch(inBlockRegex, TRUE, line)) > 0
FragmentOf(line) == FindStringSubmatch(inBlockRegex, TRUE, line)[2]

\* A line that is not doubly indented and matches the "key:" pattern but
\* not the "key: value" pattern.
OpensArray(line) ==
    /\ ~IsContinuation(line)
    /\ Len(FindStringSubmatch(recordRegex, FALSE, line)) = 0
    /\ Len(FindStringSubmatch(recordRegex2, FALSE, line)) > 0

ArrayKeyOf(line) == FindStringSubmatch(recordRegex2, FALSE, line)[2]

\* C3 (as claimed): when the scan has passed an array-open line and the
\* N >= 1 doubly-indented lines after it, the value under the key is those
\* N fragments joined by two tabs, in source order.
C3_ArrayValueIsJoinedFragments ==
    pc = "line" =>
        \A k \in 3..(i - 2) :
            (/\ OpensArray(recordElements[k])
             /\ \A j \in (k + 1)..(i - 1) : IsContinuation(recordElements[j]))
            => Lookup(Data[dmiHandle], ArrayKeyOf(recordElements[k]))
                 = Join([j \in 1..(i - 1 - k) |-> FragmentOf(recordElements[k + j])],
                        <<TAB, TAB>>)

\* C4 (as claimed): GenericSearchBy(param, value) on a populated table
\* returns a record that has attribute param with that value, or an empty
\* result when no record has such an attribute.
C4_ResultHasTheAttribute ==
    (ret.op = "GenericSearchBy" /\ ret.err = "nil") =>
        IF \E h \in DOMAIN Data :
               ret.param \in DOMAIN Data[h] /\ Data[h][ret.param] = ret.value
        THEN /\ \E h \in DOMAIN Data : Data[h] = ret.rec
             /\ ret.param \in DOMAIN ret.rec
             /\ ret.rec[ret.param] = ret.value
        ELSE ret.rec = EmptyMap

\* C5: a search returns the "DMI data is empty" error if and only if no
\* earlier ParseDmidecode call on the DMI has returned nil.
C5_NotInitializedIffNoParseSucceeded ==
    ret.op # "none" => (ret.err = "NotInitialized" <=> ~succeeded)

\* A search after a successful parse found no record.
C5_Witness ==
    /\ ret.op # "none"
    /\ succeeded
    /\ ret.err = "nil"
    /\ ret.rec = EmptyMap

\* C6 (as claimed): two successive calls of SearchByName or SearchByType
\* with the same argument on an unchanged table return the same record.
C6_SameQuerySameRecord ==
    [][(/\ ret.op \in {"SearchByName", "SearchByType"}
        /\ ret'.op = ret.op
        /\ ret'.value = ret.value
        /\ Data' = Data)
       => ret'.rec = ret.rec]_vars

\* The number a string of digits denotes.
RECURSIVE Atoi(_)
Atoi(s) ==
    IF Len(s) = 0 THEN 0
    ELSE 10 * Atoi(SubSeq(s, 1, Len(s) - 1))
         + (CHOOSE d \in 0..9 : Digits[d + 1] = s[Len(s)])

IsNumber(s) == Len(s) > 0 /\ \A k \in 1..Len(s) : IsDigit(s[k])

\* s is the decimal form of the natural number n: its digits, without
\* leading zero.
IsDecimalOf(s, n) ==
    /\ IsNumber(s)
    /\ Atoi(s) = n
    /\ (Len(s) = 1 \/ s[1] # "0")

\* The handles whose type is numerically n, whose type is the decimal form
\* of n, whose name is name.
TypedNumerically(n) ==
    {h \in DOMAIN Data : /\ IsNumber(Lookup(Data[h], <<"DMIType">>))
                         /\ Atoi(Lookup(Data[h], <<"DMIType">>)) = n}
TypedDecimal(n) ==
    {h \in DOMAIN Data : IsDecimalOf(Lookup(Data[h], <<"DMIType">>), n)}
Named(name) == {h \in DOMAIN Data : Lookup(Data[h], <<"DMIName">>) = name}

\* The last search returned the record of h and no error.
ReturnedRecordOf(h) == ret.rec = Data[h] /\ ret.err = "nil"

\* C7 (as claimed): SearchByType(n) returns the one record whose type is
\* numerically n, SearchByName(name) the one record whose name is name.
C7_UniqueMatchNumeric ==
    /\ ret.op = "SearchByType" =>
           \A h \in DOMAIN Data : TypedNumerically(ret.arg) = {h} => ReturnedRecordOf(h)
    /\ ret.op = "SearchByName" =>
           \A h \in DOMAIN Data : Named(ret.arg) = {h} => ReturnedRecordOf(h)

\* C7 (amended): SearchByType(n) returns the one record whose DMIType is the
\* decimal form of n, SearchByName(name) the one record whose name is name.
C7_UniqueMatchDecimal ==
    /\ ret.op = "SearchByType" =>
           \A h \in DOMAIN Data : TypedDecimal(ret.arg) = {h} => ReturnedRecordOf(h)
    /\ ret.op = "SearchByName" =>
           \A h \in DOMAIN Data : Named(ret.arg) = {h} => ReturnedRecordOf(h)

\* SearchByType(n) has returned, on a table of two records that are both
\* numerically of type n, the one whose type is the decimal form of n.
C7_Witness ==
    /\ ret.op = "SearchByType"
    /\ Cardinality(TypedNumerically(ret.arg)) = 2
    /\ \E h \in DOMAIN Data : TypedDecimal(ret.arg) = {h} /\ ReturnedRecordOf(h)

\* C8 (as claimed): after a call, the handles of the table are exactly the
\* handles of the matching blocks of that call's input.
C8_TableIsOfThisCall ==
    Done => DOMAIN Data = {HandleOf(LinesOf(b)[1]) : b \in MatchingBlocks}

\* C9: processing a block of fewer than 3 lines leaves the table unchanged.
C9_ShortBlockLeavesTable ==
    [][(/\ pc = "record"
        /\ r <= Len(splitOutput)
        /\ Len(LinesOf(r)) < 3)
       => Data' = Data]_vars

\* The block just processed is a header line followed by a name line, and
\* the table has no entry for its handle.
C9_Witness ==
    /\ pc = "record"
    /\ r > 1
    /\ Len(LinesOf(r - 1)) = 2
    /\ IsHeader(LinesOf(r - 1)[1])
    /\ HandleOf(LinesOf(r - 1)[1]) \notin DOMAIN Data

\* C10: processing a block whose first line is not a header leaves the
\* table unchanged and moves the call on to the next block.
C10_NoHeaderBlockDiscarded ==
    [][(/\ pc = "record"
        /\ r <= Len(splitOutput)
        /\ ~IsHeader(LinesOf(r)[1]))
       => (/\ Data' = Data
           /\ pc' = "record"
           /\ r' = r + 1
           /\ splitOutput' = splitOutput)]_vars

\* The block just processed has a first line that is no header, then a
\* header line and an attribute line; the table is still empty and the next
\* block is a matching one.
C10_Witness ==
    /\ pc = "record"
    /\ r > 1
    /\ r <= Len(splitOutput)
    /\ Len(LinesOf(r - 1)) >= 3
    /\ ~IsHeader(LinesOf(r - 1)[1])
    /\ IsHeader(LinesOf(r - 1)[2])
    /\ Data = EmptyMap
    /\ r \in MatchingBlocks

\* C11: once a ParseDmidecode call has returned, the table holds no record
\* when the call returned the "unable to parse" error and at least one
\* record when it returned nil.
C11_ErrorIffTableEmpty ==
    (pc = "idle" /\ err # "none") =>
        /\ err = "EmptyResult" => DOMAIN Data = {}
        /\ err = "nil" => DOMAIN Data # {}

\* A call given at least 3 lines has returned the error.
C11_Witness ==
    /\ pc = "idle"
    /\ err = "EmptyResult"
    /\ fed >= 3
    /\ DOMAIN Data = {}

\* C12: every record of the table has the three reserved attributes.
C12_ReservedAttributesPresent ==
    \A h \in DOMAIN Data : ReservedKeys \subseteq DOMAIN Data[h]

\* The scan of a block has passed a "key: value" line whose key is DMIName:
\* the record has the three reserved attributes and its name is that value.
C12_Witness ==
    /\ pc = "line"
    /\ i > 3
    /\ recordElements[i - 1] = NameAttr
    /\ ReservedKeys \subseteq DOMAIN Data[dmiHandle]
    /\ Data[dmiHandle][<<"DMIName">>] = <<"v">>

\* C13: a step puts a new key in the table only when the call is at a block
\* of at least 3 lines whose first line is a header, and the key is the
\* handle of that first line.
C13_KeysComeFromHeaders ==
    [][\A h \in (DOMAIN Data') \ (DOMAIN Data) :
          /\ pc = "record"
          /\ r \in MatchingBlocks
          /\ h = HandleOf(LinesOf(r)[1])]_vars

\* The scan is in a block whose name line is a header too: the table has the
\* handle of the first line and not the handle of the name line.
C13_Witness ==
    /\ pc = "line"
    /\ IsHeader(recordElements[2])
    /\ HandleOf(recordElements[1]) \in DOMAIN Data
    /\ HandleOf(recordElements[2]) \notin DOMAIN Data

\* The keys a line after the name line can store a value under: the key of
\* the "key: value" pattern and the key of the "key:" pattern.
KeysOf(line) ==
    LET recordData == FindStringSubmatch(recordRegex, FALSE, line)
        recordData2 == FindStringSubmatch(recordRegex2, FALSE, line)
    IN  (IF Len(recordData) > 0 THEN {recordData[2]} ELSE {})
        \cup (IF Len(recordData2) > 0 THEN {recordData2[2]} ELSE {})

\* C14: while a matching block is scanned, the record of its handle has only
\* the three seeded attributes and attributes named by the lines of this
\* block scanned so far, whatever record the table had for the handle.
C14_RecordIsOfLatestBlock ==
    pc = "line" =>
        \A k \in DOMAIN Data[dmiHandle] :
            \/ k \in ReservedKeys
            \/ \E j \in 3..(i - 1) : k \in KeysOf(recordElements[j])

\* The second block of a call has the handle of the first, the first has a
\* "K: v" line and the second has not: at the end of the second the record
\* has no attribute K.
C14_Witness ==
    /\ pc = "line"
    /\ r = 2
    /\ i > Len(recordElements)
    /\ 1 \in MatchingBlocks
    /\ HandleOf(LinesOf(1)[1]) = dmiHandle
    /\ LinesOf(1)[3] = KeyValue
    /\ <<"K">> \notin DOMAIN Data[dmiHandle]

\* The scan is at a line of the block of a matching header.
AtLine == pc = "line" /\ i <= Len(recordElements)

\* The line is handled as the scan handles a line when no array is open: a
\* "key: value" line stores the scalar, a "key:" line opens an array, any
\* other line is dropped.
NormalRules(line) ==
    LET recordData == FindStringSubmatch(recordRegex, FALSE, line)
        recordData2 == FindStringSubmatch(recordRegex2, FALSE, line)
    IN  IF Len(recordData) > 0
        THEN /\ Data' = Store(Data, dmiHandle,
                              Store(Data[dmiHandle], recordData[2], recordData[3]))
             /\ inBlockElement' = <<>>
        ELSE IF Len(recordData2) > 0
        THEN /\ Data' = Data
             /\ inBlockElement' = recordData2[2]
        ELSE /\ Data' = Data
             /\ inBlockElement' = <<>>

\* The keys of the arrays opened before line n whose run of doubly-indented
\* lines ended before line n.
EndedKeys(n) ==
    {ArrayKeyOf(recordElements[j]) :
        j \in {k \in 3..(n - 2) :
                  /\ OpensArray(recordElements[k])
                  /\ \E m \in (k + 1)..(n - 1) : ~IsContinuation(recordElements[m])}}

\* The value of attribute k of the current record grows by two tabs and the
\* fragment of the line.
AppendedTo(k, line) ==
    /\ k \in DOMAIN Data[dmiHandle]
    /\ Data'[dmiHandle][k] = Data[dmiHandle][k] \o <<TAB, TAB>> \o FragmentOf(line)

\* A line that is not doubly indented, met while an array is open, is
\* handled in the same step under the rules of the scan with no array open.
C15_ExitReevaluates ==
    (AtLine /\ inBlockElement # <<>> /\ ~IsContinuation(recordElements[i]))
        => NormalRules(recordElements[i]) /\ i' = i + 1

\* The first doubly-indented line after a line that is not doubly indented
\* is not appended to an attribute whose run had ended.
C15_NoLateAppend ==
    (AtLine /\ i > 3 /\ IsContinuation(recordElements[i])
            /\ ~IsContinuation(recordElements[i - 1]))
        => \A k \in EndedKeys(i) : ~AppendedTo(k, recordElements[i])

\* C15 (as claimed): a line that is not doubly indented, met while an array
\* is open, closes the array and is handled under the rules of the scan with
\* no array open in the same step (a "key: value" line is stored as a
\* scalar, a "key:" line opens a new array), and no later doubly-indented
\* line is appended to the attribute whose array was closed.
C15_ExitToNormalAndNoLateAppend ==
    [][C15_ExitReevaluates /\ C15_NoLateAppend]_vars

\* The first part of C15 alone.
C15_ExitReevaluatesAlways == [][C15_ExitReevaluates]_vars

\* A line that starts with one tab and not two.
SinglyIndented(line) == Len(line) >= 2 /\ line[1] = TAB /\ line[2] # TAB

\* A singly-indented line of the "key: value" shape, or of the "key:" shape.
IsKeyValueLine(line) ==
    SinglyIndented(line) /\ Len(FindStringSubmatch(recordRegex, TRUE, line)) > 0
IsArrayOpenLine(line) ==
    SinglyIndented(line) /\ Len(FindStringSubmatch(recordRegex2, TRUE, line)) > 0

\* C16 (as claimed): with no array open, a line that is neither a
\* singly-indented "key: value" line nor a singly-indented "key:" line
\* changes neither the table nor the scan state.
C16_OtherLinesDropped ==
    [][(/\ AtLine
        /\ inBlockElement = <<>>
        /\ ~IsKeyValueLine(recordElements[i])
        /\ ~IsArrayOpenLine(recordElements[i]))
       => (/\ Data' = Data
           /\ inBlockElement' = inBlockElement
           /\ inBlockList' = inBlockList)]_vars

\* C17: the scan of the lines of a block starts with no array open and no
\* fragment gathered, and a doubly-indented line that is the first line
\* after the name line is handled under the rules of the scan with no array
\* open: it is appended to no attribute and stored under no open key.
C17_ScanStateDoesNotLeak ==
    [][(AtLine /\ i = 3)
       => (/\ inBlockElement = <<>>
           /\ inBlockList = <<>>
           /\ IsContinuation(recordElements[i]) => NormalRules(recordElements[i])
           /\ inBlockList' = inBlockList)]_vars

\* The first block of the call is a matching block that ends with a "key:"
\* line; the second block has a doubly-indented line after its name line,
\* the scan has passed it and the record has the three seeded attributes
\* only.
C17_Witness ==
    /\ pc = "line"
    /\ r = 2
    /\ i = 4
    /\ 1 \in MatchingBlocks
    /\ OpensArray(LinesOf(1)[Len(LinesOf(1))])
    /\ IsContinuation(recordElements[3])
    /\ inBlockElement = <<>>
    /\ DOMAIN Data[dmiHandle] = ReservedKeys

\* The handle of the block a step of a call works on, {} when the block is
\* not a matching one.
CurrentHandle ==
    IF pc = "line" THEN {dmiHandle}
    ELSE IF pc = "record" /\ r \in MatchingBlocks THEN {HandleOf(LinesOf(r)[1])}
    ELSE {}

\* C18: a step of ParseDmidecode leaves the record of every handle other
\* than the handle of the block it works on as it is, and a search leaves
\* the whole table as it is, whatever it returns.
C18_OnlyTheRecordOfTheBlockChanges ==
    [][/\ \A h \in (DOMAIN Data) \ CurrentHandle :
              h \in DOMAIN Data' /\ Data'[h] = Data[h]
       /\ (pc = "idle" /\ pc' = "idle") => Data' = Data]_vars

\* The second block of a call, of another handle than the first, has been
\* scanned and has stored an attribute; the record of the first block has
\* its seeds and its attribute K.
C18_Witness ==
    /\ pc = "line"
    /\ r = 2
    /\ i > Len(recordElements)
    /\ 1 \in MatchingBlocks
    /\ HandleOf(LinesOf(1)[1]) # dmiHandle
    /\ LinesOf(1)[3] = KeyValue
    /\ HasSeed(HandleOf(LinesOf(1)[1]), TypeOf(LinesOf(1)[1]),
               SizeOf(LinesOf(1)[1]), LinesOf(1)[2])
    /\ Lookup(Data[HandleOf(LinesOf(1)[1])], <<"K">>) = <<"v">>
    /\ DOMAIN Data[dmiHandle] # ReservedKeys

\* C19: no step of a ParseDmidecode call or of a search takes a handle out
\* of the table.
C19_HandlesNeverShrink == [][DOMAIN Data \subseteq DOMAIN Data']_vars

\* A call has processed its blocks, one of them a matching block, and the
\* table has a handle that no matching block of this call has: a handle of
\* an earlier call.
C19_Witness ==
    /\ Done
    /\ MatchingBlocks # {}
    /\ \E h \in DOMAIN Data :
           h \notin {HandleOf(LinesOf(b)[1]) : b \in MatchingBlocks}

====
